---- MODULE Spec2Model ----
(***************************************************************************)
(* Model of the STM32U5/H5/H7 NOR flash driver (src/flash/nor/stm32h5x.c). *)
(*                                                                         *)
(* The driver is single threaded.  Every driver entry point (Probe,        *)
(* FlashMassErase, FlashErase, FlashWrite, GetInfo, the mass_erase         *)
(* command) is modelled as a                                               *)
(* sequence of steps, one step per access to the target (register read,    *)
(* register write, burst write); pc is the position inside the entry       *)
(* point.  The target is a register shim: every read returns either a      *)
(* transport error or one value of a small representative set, every       *)
(* write succeeds or fails.  log records the accesses of the call in       *)
(* progress (of the last call, when pc = "idle").  assert() is live, as in  *)
(* a build without NDEBUG: a failed assertion ends the process (pc =       *)
(* "abort").  Undefined behaviour (a null descriptor or function reference *)
(* used) ends the process (pc = "segv") or returns an arbitrary status.    *)
(* Spec is the driver as the flash framework calls it; WaitSpec is         *)
(* Wait4EOP called on its own with every timeout from 0.                   *)
(***************************************************************************)
EXTENDS Integers, Sequences, FiniteSets, TLC

(***************************************************************************)
(* Bounds of the model.                                                    *)
(***************************************************************************)
\* ticks given to Wait4EOP for a mass erase (3000 in the source)
MassEraseTimeout == 2
\* ticks given to Wait4EOP for one sector or one burst (300 in the source)
ShortTimeout == 1
\* largest number of source bytes handed to FlashWrite
MaxBytes == 20
\* largest number of sectors (last - first + 1) handed to FlashErase
MaxRange == 2
\* largest timeout handed to Wait4EOP when it is examined on its own
MaxTicks == 3

(***************************************************************************)
(* 32 bit words.  A register address or register value is a pair of 16 bit *)
(* halves <<hi, lo>>, so that 0x80000000 and 0xcdef89ab are representable; *)
(* sizes, offsets and counts are plain integers, all below 2^31.           *)
(***************************************************************************)
Half == 2^16

W(hi, lo) == <<hi, lo>>

\* the word of an integer 0 <= n < 2^31
ToWord(n) == W((n \div Half) % Half, n % Half)

RECURSIVE BitAnd(_, _)
BitAnd(a, b) ==
    IF a = 0 \/ b = 0 THEN 0
    ELSE (a % 2) * (b % 2) + 2 * BitAnd(a \div 2, b \div 2)

RECURSIVE BitOr(_, _)
BitOr(a, b) ==
    IF a = 0 THEN b
    ELSE IF b = 0 THEN a
    ELSE (IF (a % 2) + (b % 2) > 0 THEN 1 ELSE 0) + 2 * BitOr(a \div 2, b \div 2)

\* x & y and x | y on uint32_t
AndW(x, y) == W(BitAnd(x[1], y[1]), BitAnd(x[2], y[2]))
OrW(x, y) == W(BitOr(x[1], y[1]), BitOr(x[2], y[2]))

\* x << n on uint32_t
ShlW(x, n) ==
    W((x[1] * 2^n + (x[2] * 2^n) \div Half) % Half, (x[2] * 2^n) % Half)

ZeroW == W(0, 0)

(***************************************************************************)
(* Status codes.  A failed access of the register shim returns             *)
(* ERROR_TRANSPORT, a code different from every code the driver sets.      *)
(***************************************************************************)
ERROR_OK == "ERROR_OK"
ERROR_FAIL == "ERROR_FAIL"
ERROR_TARGET_NOT_HALTED == "ERROR_TARGET_NOT_HALTED"
ERROR_TARGET_NOT_EXAMINED == "ERROR_TARGET_NOT_EXAMINED"
ERROR_TARGET_RESOURCE_NOT_AVAILABLE == "ERROR_TARGET_RESOURCE_NOT_AVAILABLE"
ERROR_TRANSPORT == "ERROR_TRANSPORT"
ERROR_COMMAND_SYNTAX_ERROR == "ERROR_COMMAND_SYNTAX_ERROR"

StatusCodes ==
    {ERROR_OK, ERROR_FAIL, ERROR_TARGET_NOT_HALTED, ERROR_TARGET_NOT_EXAMINED,
     ERROR_TARGET_RESOURCE_NOT_AVAILABLE, ERROR_TRANSPORT,
     ERROR_COMMAND_SYNTAX_ERROR}

\* outcomes of target_write_u32 / target_write_memory
WriteResults == {ERROR_OK, ERROR_TRANSPORT}

\* outcomes of target_read_u32 / target_read_u16 over the values vals
ReadResults(vals, none) ==
    {[ret |-> ERROR_OK, val |-> v] : v \in vals}
        \cup {[ret |-> ERROR_TRANSPORT, val |-> none]}

(***************************************************************************)
(* Chip definitions.                                                       *)
(***************************************************************************)
ARM_ARCH_V7M == "ARM_ARCH_V7M"
ARM_ARCH_V8M == "ARM_ARCH_V8M"
ARM_ARCH_V6M == "ARM_ARCH_V6M"

NULL == 0

KiB == 1024

Def_U5(devId, devStr, maxSize) ==
    [ARMArch |-> ARM_ARCH_V8M, IDCODE_RomTableAddr |-> W(57348, 16384),
     DevID |-> devId, DevStr |-> devStr, FlashBaseAddr |-> 134217728,
     FlashBusWidth |-> 128 \div 8, FlashPageSize |-> 8 * KiB,
     MaxFlashSize |-> maxSize, FlashSize_Addr |-> W(3066, 1952),
     MassErase |-> "MassErase_U5", Erase |-> "Erase_U5", Write |-> "NULL"]

Def_H5(devId, devStr, maxSize) ==
    [ARMArch |-> ARM_ARCH_V8M, IDCODE_RomTableAddr |-> W(17410, 16384),
     DevID |-> devId, DevStr |-> devStr, FlashBaseAddr |-> 134217728,
     FlashBusWidth |-> 128 \div 8, FlashPageSize |-> 8 * KiB,
     MaxFlashSize |-> maxSize, FlashSize_Addr |-> W(2303, 63500),
     MassErase |-> "MassErase_H5", Erase |-> "Erase_H5", Write |-> "Write_H5"]

Def_H7(devId, devStr, maxSize) ==
    [ARMArch |-> ARM_ARCH_V7M, IDCODE_RomTableAddr |-> W(23552, 4096),
     DevID |-> devId, DevStr |-> devStr, FlashBaseAddr |-> 134217728,
     FlashBusWidth |-> 256 \div 8, FlashPageSize |-> 128 * KiB,
     MaxFlashSize |-> maxSize, FlashSize_Addr |-> W(8177, 59520),
     MassErase |-> "MassErase_H7", Erase |-> "Erase_H7", Write |-> "NULL"]

\* DeviceDefs[k + 1] is the source's DeviceDefs[k]
DeviceDefs ==
    << Def_U5(1109, "STM32U535/545", 512 * KiB),
       Def_U5(1142, "STM32U5Fx/5Gx", 4 * KiB * KiB),
       Def_U5(1153, "STM32U59x/5Ax", 4 * KiB * KiB),
       Def_U5(1154, "STM32U575/585", 2 * KiB * KiB),
       Def_H5(1156, "STM32H562/563/573", 2 * KiB * KiB),
       Def_H5(1144, "STM32H523/533", 512 * KiB),
       Def_H5(1140, "STM32H503", 512 * KiB),
       Def_H7(1104, "STM32H742/743/750/753", 2 * KiB * KiB) >>

NumDefs == Len(DeviceDefs)

(***************************************************************************)
(* Inputs: what the session, the user and the device can present.          *)
(***************************************************************************)
\* core architectures of the attached target
Archs == {ARM_ARCH_V7M, ARM_ARCH_V8M, ARM_ARCH_V6M}
\* <base> of the 'flash bank' command: 0x08000000 and 0x08100000
BankBases == {134217728, 135266304}
\* <size> of the 'flash bank' command
BankSizes == {0, 256 * KiB, 8 * KiB * KiB}
\* identification words: H562 (0x10016484), U535 (0x10016455),
\* H743 (0x20036450) and an unknown device (0x10010123)
IdcodeReads == {W(4097, 25732), W(4097, 25685), W(8195, 25680), W(4097, 291)}
\* raw values of the 16 bit flash size register
FlashSizeReads == {0, 16, 1024, 65535}

(***************************************************************************)
(* State.                                                                  *)
(***************************************************************************)
VARIABLES
    examined,   \* target_was_examined(bank->target)
    isArm,      \* target_to_arm(target) != NULL && is_arm(armTarget)
    arch,       \* armTarget->arch
    halted,     \* bank->target->state == TARGET_HALTED, as the last call saw it
    bank,       \* struct flash_bank: base, size, chip_width, ...
    Def,        \* this->Def: NULL or the index k + 1 of &DeviceDefs[k]
    pc,         \* position of the driver
    call,       \* the entry point called and its arguments
    pre,        \* Def and bank->size when the call was made
    ret,        \* the local ret; the status returned when pc = "idle"
    k,          \* Probe: index into DeviceDefs
    val16,      \* Probe: outcome of the read of the flash size register
    sector,     \* Erase_H5: loop variable
    timeout,    \* Wait4EOP: ticks left
    bankNum,    \* MassErase_H7: loop variable
    addr,       \* Write_H5: address of the next burst
    nBytes,     \* Write_H5: source bytes left
    ub,         \* undefined behaviour met by the call: "none" or what
    probed,     \* the status the last Probe returned, "none" before the first
    log,        \* accesses to the target made by the call
    val32,      \* outcome of the access the last step of the family protocol
                \* made: its status, and val of target_read_u32(.., &val)
    failed      \* place in log of the first access of the main sequence
                \* (guard, unlock, start, wait, burst) that failed, 0 if none

target == <<examined, isArm, arch, halted>>
vars == <<examined, isArm, arch, halted, bank, Def, pc, call, pre, ret,
          k, val16, sector, timeout, bankNum, addr, nBytes, ub, probed, log,
          val32, failed>>

NoRead == [ret |-> "none", val |-> 0]
NoVal == [ret |-> "none", val |-> <<0, 0>>]

\* one access to the target
Access(acc, a, v, d) == [acc |-> acc, addr |-> a, val |-> v, data |-> d]
ReadU32(a) == Access("read_u32", a, ZeroW, <<>>)
ReadU16(a) == Access("read_u16", a, ZeroW, <<>>)
WriteU32(a, v) == Access("write_u32", a, v, <<>>)
WriteMemory(a, d) == Access("write_memory", a, ZeroW, d)

NoArgs ==
    [first |-> 0, last |-> 0, dstOffs |-> 0, nBytes |-> 0, seed |-> 0,
     timeout |-> 0]
Call(op) == [op |-> op, fn |-> "none", args |-> NoArgs]

\* entering an entry point: fresh locals, empty access log
Enter(c) ==
    /\ call' = c
    /\ pre' = [Def |-> Def, size |-> bank.size]
    /\ k' = 0
    /\ val16' = NoRead
    /\ log' = <<>>
    /\ val32' = NoVal
    /\ failed' = 0

\* the locals of the family protocol functions
Step(p, r, sec, t, b, a, n) ==
    /\ pc' = p
    /\ ret' = r
    /\ sector' = sec
    /\ timeout' = t
    /\ bankNum' = b
    /\ addr' = a
    /\ nBytes' = n

Keep(p, r) == Step(p, r, sector, timeout, bankNum, addr, nBytes)

\* return r
Return(r) ==
    /\ ret' = r
    /\ pc' = "idle"

(***************************************************************************)
(* FLASH_BANK_COMMAND_HANDLER: flash bank stm32u5_h5_h7 <base> <size> 0 0  *)
(***************************************************************************)
stm32u5_h5_h7_flash_bank_command(base, size) ==
    /\ Def = NULL
    /\ bank = [base |-> base, size |-> size, chip_width |-> 0, bus_width |-> 0,
               write_start_alignment |-> 0, minimal_write_gap |-> 0,
               num_sectors |-> 0]

Init ==
    /\ examined \in BOOLEAN
    /\ isArm \in BOOLEAN
    /\ arch \in (IF isArm THEN Archs ELSE {ARM_ARCH_V6M})
    /\ halted = FALSE
    /\ \E base \in BankBases, size \in BankSizes :
           stm32u5_h5_h7_flash_bank_command(base, size)
    /\ pc = "idle"
    /\ call = Call("flash_bank_command")
    /\ pre = [Def |-> NULL, size |-> bank.size]
    /\ ret = ERROR_OK
    /\ k = 0
    /\ val16 = NoRead
    /\ sector = 0
    /\ timeout = 0
    /\ bankNum = 0
    /\ addr = 0
    /\ nBytes = 0
    /\ ub = "none"
    /\ probed = "none"
    /\ log = <<>>
    /\ val32 = NoVal
    /\ failed = 0

(***************************************************************************)
(* Probe                                                                   *)
(***************************************************************************)
\* faulty variant of ProbeMustScan: the table is scanned on every Probe
ProbeMustScan_Always == TRUE

\* this->Def == NULL: the table is scanned only for an unresolved bank
ProbeMustScan == Def = NULL

\* DeviceDefs[k].DevID == (idcode & 0x0fff)
DevIDMatches(d, idcode) == ToWord(d.DevID) = AndW(idcode, W(0, 4095))

\* the size the bank is given before the flash size register is read
ClampedSize(d, size) ==
    IF size = 0 THEN d.MaxFlashSize
    ELSE IF d.MaxFlashSize < size THEN d.MaxFlashSize
    ELSE size

\* flashSize = ((uint32_t)val) * 1024; val is 16 bits wide, no wrap
ScaledFlashSize(val) == val * 1024

\* faulty variant of FlashSizeValid: a flash size of zero is taken for valid
FlashSizeValid_AcceptsZero(d, flashSize) == flashSize <= d.MaxFlashSize

\* 0 < flashSize && flashSize <= def->MaxFlashSize
FlashSizeValid(d, flashSize) == 0 < flashSize /\ flashSize <= d.MaxFlashSize

\* bank->size after the size examination, r the outcome of target_read_u16
ExaminedSize(d, size, r) ==
    IF d.FlashSize_Addr # ZeroW /\ r.ret = ERROR_OK
           /\ FlashSizeValid(d, ScaledFlashSize(r.val))
    THEN ScaledFlashSize(r.val)
    ELSE ClampedSize(d, size)

\* return ret of Probe
ProbeReturn(r) ==
    /\ Return(r)
    /\ probed' = r

ProbeCall ==
    /\ pc = "idle"
    /\ Enter(Call("Probe"))
    /\ \E e \in {examined, TRUE} : examined' = e
    /\ IF ~examined'
       THEN ProbeReturn(ERROR_TARGET_NOT_EXAMINED)
       ELSE IF ~isArm
       THEN ProbeReturn(ERROR_FAIL)
       ELSE IF ProbeMustScan
       THEN ret' = ERROR_FAIL /\ pc' = "Probe_scan" /\ probed' = probed
       ELSE ret' = ERROR_OK /\ pc' = "Probe_size" /\ probed' = probed
    /\ sector' = 0 /\ timeout' = 0 /\ bankNum' = 0 /\ addr' = 0 /\ nBytes' = 0
    /\ ub' = "none"
    /\ UNCHANGED <<isArm, arch, halted, bank, Def>>

ProbeScan ==
    /\ pc = "Probe_scan"
    /\ IF k = NumDefs
       THEN /\ pc' = "Probe_size"
            /\ UNCHANGED <<Def, ret, k, log>>
       ELSE IF arch # DeviceDefs[k + 1].ARMArch
       THEN /\ k' = k + 1
            /\ UNCHANGED <<Def, ret, pc, log>>
       ELSE \E r \in ReadResults(IdcodeReads, ZeroW) :
            /\ log' = Append(log, ReadU32(DeviceDefs[k + 1].IDCODE_RomTableAddr))
            /\ IF r.ret = ERROR_OK /\ DevIDMatches(DeviceDefs[k + 1], r.val)
               THEN /\ Def' = k + 1
                    /\ ret' = ERROR_OK
                    /\ pc' = "Probe_size"
                    /\ k' = k
               ELSE /\ k' = k + 1
                    /\ UNCHANGED <<Def, ret, pc>>
    /\ UNCHANGED <<target, bank, call, pre, val16, sector, timeout, bankNum,
                   addr, nBytes, ub, probed, val32, failed>>

ProbeSize ==
    /\ pc = "Probe_size"
    /\ IF ret = ERROR_OK /\ Def # NULL
       THEN LET d == DeviceDefs[Def] IN
            IF bank.base = d.FlashBaseAddr
            THEN \E r \in (IF d.FlashSize_Addr # ZeroW
                           THEN ReadResults(FlashSizeReads, 0) ELSE {NoRead}) :
                 /\ val16' = r
                 /\ log' = IF d.FlashSize_Addr # ZeroW
                           THEN Append(log, ReadU16(d.FlashSize_Addr)) ELSE log
                 /\ bank' = [bank EXCEPT
                        !.size = ExaminedSize(d, bank.size, r),
                        !.chip_width = d.FlashBusWidth,
                        !.bus_width = d.FlashBusWidth,
                        !.write_start_alignment = d.FlashBusWidth,
                        !.minimal_write_gap = d.FlashBusWidth,
                        !.num_sectors = 0]
                 /\ ProbeReturn(ERROR_OK)
            ELSE /\ ProbeReturn(ERROR_FAIL)
                 /\ UNCHANGED <<bank, val16, log>>
       ELSE /\ ProbeReturn(ERROR_OK)
            /\ UNCHANGED <<bank, val16, log>>
    /\ UNCHANGED <<target, Def, call, pre, k, sector, timeout, bankNum,
                   addr, nBytes, ub, val32, failed>>

(***************************************************************************)
(* STM32U5 specific                                                        *)
(***************************************************************************)
U5_NSKEYR == W(16386, 8192 + 8)
U5_NSSR == W(16386, 8192 + 32)
U5_NSCR == W(16386, 8192 + 40)

\* the access Lock_U5 makes
Lock_U5 == WriteU32(U5_NSCR, W(32768, 0))
\* faulty variant of Unlocked_U5: bit 0 is taken for the lock bit
Unlocked_U5_Bit0(val) == AndW(val, W(0, 1)) = ZeroW
\* Unlock_U5: (val & 0x80000000) == 0
Unlocked_U5(val) == AndW(val, W(32768, 0)) = ZeroW
\* faulty variant of Wait4EOP_U5: the error bits do not end the wait
Wait4EOP_U5_NoFatal(val) ==
    IF AndW(val, W(1, 1)) = W(0, 1) /\ AndW(val, W(0, 8442)) = ZeroW THEN "done"
    ELSE "again"
\* what one tick of Wait4EOP_U5 makes of the status word val
Wait4EOP_U5(val) ==
    IF AndW(val, W(0, 8442)) # ZeroW THEN "fatal"
    ELSE IF AndW(val, W(1, 1)) = W(0, 1) THEN "done"
    ELSE "again"
\* CheckNoOp_U5: (val & 0x00010000) == 0
CheckNoOp_U5(val) == AndW(val, W(1, 0)) = ZeroW
ClearErrorFlags_U5 == WriteU32(U5_NSSR, W(0, 8443))
\* MassErase_U5: start mass erase; reset MER1 and MER2 bits
MassEraseStart_U5 == WriteU32(U5_NSCR, W(1, 32772))
MassEraseReset_U5 == WriteU32(U5_NSCR, ZeroW)

(***************************************************************************)
(* STM32H5 specific                                                        *)
(***************************************************************************)
H5_NSKEYR == W(16386, 8192 + 4)
H5_NSSR == W(16386, 8192 + 32)
H5_NSCR == W(16386, 8192 + 40)
H5_NSCCR == W(16386, 8192 + 48)

Lock_H5 == WriteU32(H5_NSCR, W(0, 1))
\* Unlock_H5: (val & 0x00000001) == 0
Unlocked_H5(val) == AndW(val, W(0, 1)) = ZeroW
Wait4EOP_H5(val) ==
    IF AndW(val, W(254, 0)) # ZeroW THEN "fatal"
    ELSE IF AndW(val, W(1, 11)) = W(1, 0) THEN "done"
    ELSE "again"
\* CheckNoOp_H5: (val & 0x0000000b) == 0
CheckNoOp_H5(val) == AndW(val, W(0, 11)) = ZeroW
ClearErrorFlags_H5 == WriteU32(H5_NSCCR, W(255, 0))
MassEraseStart_H5 == WriteU32(H5_NSCR, W(0, 32800))
MassEraseReset_H5 == WriteU32(H5_NSCR, ZeroW)

\* Erase_H5: nSectorsTotal = bank->size / def->FlashPageSize
nSectorsTotal(size, d) == size \div d.FlashPageSize
\* Erase_H5: nSectorsPerBank = nSectorsTotal
nSectorsPerBank(size, d) == nSectorsTotal(size, d)

\* Erase_H5: the control word that starts the erase of a sector
EraseCR(sec, perBank) ==
    IF sec < perBank
    THEN OrW(W(0, 36), ShlW(ToWord(sec), 6))
    ELSE OrW(W(0, 36), OrW(ShlW(ToWord(sec - perBank), 6), W(32768, 0)))

\* the assertions of Erase_H5
EraseAsserts_H5(size, def, first, last) ==
    /\ def # NULL
    /\ nSectorsTotal(size, DeviceDefs[def]) % 2 = 0
    /\ first <= last
    /\ last <= nSectorsTotal(size, DeviceDefs[def])
    /\ nSectorsPerBank(size, DeviceDefs[def]) < 127

\* Write_H5: (addr & 127) == 0, addr = dstOffs + bank->base
WriteAddrAligned_H5(a) == BitAnd(a % Half, 127) = 0

\* the assertions of Write_H5
WriteAsserts_H5(b, def, dstOffs, n) ==
    /\ dstOffs + n <= b.size
    /\ WriteAddrAligned_H5(dstOffs + b.base)
    /\ b.chip_width = 128 \div 8
    /\ def # NULL

\* Write_H5: sizeof(data) and the byte a short burst is filled up with
BurstBytes == 128 \div 8
PadByte == 255

\* byte i (from 0) of the source buffer of FlashWrite
Buffer(seed, i) == (seed + i) % 256

\* faulty variant of BurstData: a short burst is filled from behind the end
\* of the source instead of being padded
BurstData_NoPad(seed, pos, left) ==
    [bi \in 1..BurstBytes |-> Buffer(seed, pos + bi - 1)]

\* Write_H5: data[] of the burst that starts at source position pos with
\* left bytes of the source remaining
BurstData(seed, pos, left) ==
    [bi \in 1..BurstBytes |->
        IF bi <= left THEN Buffer(seed, pos + bi - 1) ELSE PadByte]

\* Write_H5: start programming; reset PG bit
ProgramStart_H5 == WriteU32(H5_NSCR, W(0, 2))
ProgramReset_H5 == WriteU32(H5_NSCR, ZeroW)
EraseReset_H5 == WriteU32(H5_NSCR, ZeroW)

(***************************************************************************)
(* STM32H7 specific                                                        *)
(***************************************************************************)
H7_KEYR(b) == W(20992, 8192 + (IF b = 0 THEN 4 ELSE 260))
H7_SR(b) == W(20992, 8192 + (IF b = 0 THEN 16 ELSE 272))
H7_CR(b) == W(20992, 8192 + (IF b = 0 THEN 12 ELSE 268))
H7_CCR(b) == W(20992, 8192 + (IF b = 0 THEN 20 ELSE 276))

Lock_H7(b) == WriteU32(H7_CR(b), W(0, 1))
Unlocked_H7(val) == AndW(val, W(0, 1)) = ZeroW
Wait4EOP_H7(val) ==
    IF AndW(val, W(255, 0)) # ZeroW THEN "fatal"
    ELSE IF AndW(val, W(0, 11)) = ZeroW THEN "done"
    ELSE "again"
\* faulty variant of CheckNoOp_H7: the busy bits are not looked at
CheckNoOp_H7_Ignored(val) == TRUE
CheckNoOp_H7(val) == AndW(val, W(0, 11)) = ZeroW
ClearErrorFlags_H7(b) == WriteU32(H7_CCR(b), W(255, 0))
MassEraseStart_H7(b) == WriteU32(H7_CR(b), W(0, 32800))
MassEraseReset_H7(b) == WriteU32(H7_CR(b), ZeroW)
\* MassErase_H7: bankNum < 2
NumBanks_H7 == 2

\* faulty variant of KEY2: the first key is written twice
KEY2_IsKEY1 == W(17767, 291)

\* the two keys every Unlock writes
KEY1 == W(17767, 291)
KEY2 == W(52719, 35243)

(***************************************************************************)
(* The family protocol, one step per access.  Fam is the family of the     *)
(* function the facade dispatched to.                                      *)
(***************************************************************************)
\* status and control words the register shim can return
StatusReads == {ZeroW, W(0, 1), W(1, 0), W(2, 0), W(0, 8)}
ControlReads == {ZeroW, W(0, 1), W(32768, 0)}

Fam ==
    CASE call.fn = "MassErase_U5" -> "U5"
      [] call.fn \in {"MassErase_H5", "Erase_H5", "Write_H5"} -> "H5"
      [] call.fn = "MassErase_H7" -> "H7"

StatusReg ==
    CASE Fam = "U5" -> U5_NSSR [] Fam = "H5" -> H5_NSSR [] Fam = "H7" -> H7_SR(bankNum)
ControlReg ==
    CASE Fam = "U5" -> U5_NSCR [] Fam = "H5" -> H5_NSCR [] Fam = "H7" -> H7_CR(bankNum)
KeyReg ==
    CASE Fam = "U5" -> U5_NSKEYR [] Fam = "H5" -> H5_NSKEYR
      [] Fam = "H7" -> H7_KEYR(bankNum)
NoOp(val) ==
    CASE Fam = "U5" -> CheckNoOp_U5(val) [] Fam = "H5" -> CheckNoOp_H5(val)
      [] Fam = "H7" -> CheckNoOp_H7(val)
Unlocked(val) ==
    CASE Fam = "U5" -> Unlocked_U5(val) [] Fam = "H5" -> Unlocked_H5(val)
      [] Fam = "H7" -> Unlocked_H7(val)
Tick(val) ==
    CASE Fam = "U5" -> Wait4EOP_U5(val) [] Fam = "H5" -> Wait4EOP_H5(val)
      [] Fam = "H7" -> Wait4EOP_H7(val)
ClearAccess ==
    CASE Fam = "U5" -> ClearErrorFlags_U5 [] Fam = "H5" -> ClearErrorFlags_H5
      [] Fam = "H7" -> ClearErrorFlags_H7(bankNum)
LockAccess ==
    CASE Fam = "U5" -> Lock_U5 [] Fam = "H5" -> Lock_H5 [] Fam = "H7" -> Lock_H7(bankNum)
StartAccess ==
    CASE call.fn = "MassErase_U5" -> MassEraseStart_U5
      [] call.fn = "MassErase_H5" -> MassEraseStart_H5
      [] call.fn = "MassErase_H7" -> MassEraseStart_H7(bankNum)
      [] call.fn = "Erase_H5" ->
            WriteU32(H5_NSCR,
                     EraseCR(sector, nSectorsPerBank(bank.size, DeviceDefs[Def])))
      [] call.fn = "Write_H5" -> ProgramStart_H5
ResetAccess ==
    CASE call.fn = "MassErase_U5" -> MassEraseReset_U5
      [] call.fn = "MassErase_H5" -> MassEraseReset_H5
      [] call.fn = "MassErase_H7" -> MassEraseReset_H7(bankNum)
      [] call.fn = "Erase_H5" -> EraseReset_H5
      [] call.fn = "Write_H5" -> ProgramReset_H5

\* the end of the guarded block: MassErase_H7 goes on with the next bank,
\* every other function returns ret
EndPass(r) ==
    IF call.fn = "MassErase_H7" /\ bankNum + 1 < NumBanks_H7
    THEN Step("CheckNoOp", r, sector, timeout, bankNum + 1, addr, nBytes)
    ELSE Keep("idle", r)

\* Erase_H5: sector++ and the loop test sector <= last
EraseLoopContinues(sec, last) == sec <= last
NextSector(r) ==
    IF EraseLoopContinues(sector + 1, call.args.last)
    THEN Step("Start", r, sector + 1, timeout, bankNum, addr, nBytes)
    ELSE Step("Lock", r, sector + 1, timeout, bankNum, addr, nBytes)

\* Write_H5: while (0 < nBytes && ret == ERROR_OK)
WriteLoopContinues(n, r) == 0 < n /\ r = ERROR_OK

\* what follows Wait4EOP returning r (a, n: Write_H5's addr and nBytes)
AfterWait(r, a, n) ==
    IF call.fn = "Write_H5" /\ WriteLoopContinues(n, r)
    THEN Step("WriteBurst", r, sector, 0, bankNum, a, n)
    ELSE Step("ResetBits", r, sector, 0, bankNum, a, n)

\* faulty variant of EnterWait: the loop tests the timeout at its end only
EnterWait_DoWhile(t, a, n) ==
    Step("Wait4EOP", ERROR_FAIL, sector, t, bankNum, a, n)

\* the call Wait4EOP(bank, t)
EnterWait(t, a, n) ==
    IF 0 < t
    THEN Step("Wait4EOP", ERROR_FAIL, sector, t, bankNum, a, n)
    ELSE AfterWait(ERROR_FAIL, a, n)

\* the timeout the function hands to Wait4EOP
Timeout ==
    IF call.op \in {"FlashMassErase", "STM32_MassEraseCommand"}
    THEN MassEraseTimeout ELSE ShortTimeout

frozen ==
    <<examined, isArm, arch, halted, bank, Def, call, pre, k, val16, ub, probed>>

\* the access the step appends to log returned r
Outcome(r) ==
    failed' = IF failed = 0 /\ r # ERROR_OK THEN Len(log) + 1 ELSE failed

\* the step was target_read_u32(.., &val) with outcome r
Read(r) == val32' = r /\ Outcome(r.ret)
\* the step was a write of the main sequence that returned w
Written(w) == val32' = [ret |-> w, val |-> ZeroW] /\ Outcome(w)
\* the step was a cleanup or lock write that returned w, which is dropped
Dropped(w) == val32' = [ret |-> w, val |-> ZeroW] /\ failed' = failed

CheckNoOp ==
    /\ pc = "CheckNoOp"
    /\ \E r \in ReadResults(StatusReads, ZeroW) :
          /\ Read(r)
          /\ log' = Append(log, ReadU32(StatusReg))
          /\ IF r.ret # ERROR_OK THEN EndPass(r.ret)
             ELSE IF NoOp(r.val) THEN Keep("ClearErrorFlags", ERROR_OK)
             ELSE EndPass(ERROR_TARGET_RESOURCE_NOT_AVAILABLE)
    /\ UNCHANGED frozen

\* faulty variant of ClearErrorFlags: the status of the write is not tested
ClearErrorFlags_Unchecked ==
    /\ pc = "ClearErrorFlags"
    /\ \E w \in WriteResults :
          /\ Written(w)
          /\ log' = Append(log, ClearAccess)
          /\ Keep("Unlock", w)
    /\ UNCHANGED frozen

ClearErrorFlags ==
    /\ pc = "ClearErrorFlags"
    /\ \E w \in WriteResults :
          /\ Written(w)
          /\ log' = Append(log, ClearAccess)
          /\ IF w = ERROR_OK THEN Keep("Unlock", w) ELSE EndPass(w)
    /\ UNCHANGED frozen

\* Unlock succeeded: the guarded block is entered
Begin == Step("Start", ERROR_OK, call.args.first, timeout, bankNum, addr, nBytes)

Unlock ==
    /\ pc = "Unlock"
    /\ \E r \in ReadResults(ControlReads, ZeroW) :
          /\ Read(r)
          /\ log' = Append(log, ReadU32(ControlReg))
          /\ IF r.ret # ERROR_OK THEN EndPass(r.ret)
             ELSE IF Unlocked(r.val) THEN Begin
             ELSE Keep("Unlock_key1", r.ret)
    /\ UNCHANGED frozen

UnlockKey1 ==
    /\ pc = "Unlock_key1"
    /\ \E w \in WriteResults :
          /\ Written(w)
          /\ log' = Append(log, WriteU32(KeyReg, KEY1))
          /\ IF w = ERROR_OK THEN Keep("Unlock_key2", w) ELSE EndPass(w)
    /\ UNCHANGED frozen

UnlockKey2 ==
    /\ pc = "Unlock_key2"
    /\ \E w \in WriteResults :
          /\ Written(w)
          /\ log' = Append(log, WriteU32(KeyReg, KEY2))
          /\ IF w = ERROR_OK THEN Keep("Unlock_verify", w) ELSE EndPass(w)
    /\ UNCHANGED frozen

UnlockVerify ==
    /\ pc = "Unlock_verify"
    /\ \E r \in ReadResults(ControlReads, ZeroW) :
          /\ Read(r)
          /\ log' = Append(log, ReadU32(ControlReg))
          /\ IF r.ret # ERROR_OK THEN EndPass(r.ret)
             ELSE IF Unlocked(r.val) THEN Begin
             ELSE EndPass(ERROR_FAIL)
    /\ UNCHANGED frozen

\* the write that starts the mass erase, the erase of sector, or programming
Start ==
    /\ pc = "Start"
    /\ \E w \in WriteResults :
          /\ Written(w)
          /\ log' = Append(log, StartAccess)
          /\ IF w = ERROR_OK
             THEN IF call.fn = "Write_H5"
                  THEN AfterWait(w, addr, nBytes)
                  ELSE EnterWait(Timeout, addr, nBytes)
             ELSE IF call.fn = "Erase_H5" THEN NextSector(w)
             ELSE Keep("Lock", w)
    /\ UNCHANGED frozen

\* one iteration of the loop of Wait4EOP
Wait4EOP ==
    /\ pc = "Wait4EOP"
    /\ \E r \in ReadResults(StatusReads, ZeroW) :
          /\ Read(r)
          /\ log' = Append(log, ReadU32(StatusReg))
          /\ LET t == IF r.ret = ERROR_OK THEN Tick(r.val) ELSE "again" IN
             IF t = "fatal" THEN AfterWait(ERROR_FAIL, addr, nBytes)
             ELSE IF t = "done" THEN AfterWait(ERROR_OK, addr, nBytes)
             ELSE IF 0 < timeout - 1
             THEN Step("Wait4EOP", ERROR_FAIL, sector, timeout - 1, bankNum,
                       addr, nBytes)
             ELSE AfterWait(ERROR_FAIL, addr, nBytes)
    /\ UNCHANGED frozen

\* Write_H5: one burst is assembled and written
WriteBurst ==
    /\ pc = "WriteBurst"
    /\ LET pos == call.args.nBytes - nBytes
           left == IF nBytes > BurstBytes THEN nBytes - BurstBytes ELSE 0
       IN \E w \in WriteResults :
          /\ Written(w)
          /\ log' = Append(log, WriteMemory(ToWord(addr),
                                   BurstData(call.args.seed, pos, nBytes)))
          /\ IF w # ERROR_OK
             THEN Step("ResetBits", w, sector, timeout, bankNum, addr, left)
             ELSE EnterWait(ShortTimeout, addr + 128 \div 8, left)
    /\ UNCHANGED frozen

\* the start bits are reset; the outcome of the write is dropped
ResetBits ==
    /\ pc = "ResetBits"
    /\ \E w \in WriteResults :
          /\ Dropped(w)
          /\ log' = Append(log, ResetAccess)
          /\ IF call.fn = "Erase_H5" THEN NextSector(ret) ELSE Keep("Lock", ret)
    /\ UNCHANGED frozen

\* faulty variant of Lock: the status of the lock write is returned
Lock_Returned ==
    /\ pc = "Lock"
    /\ \E w \in WriteResults :
          /\ Dropped(w)
          /\ log' = Append(log, LockAccess)
          /\ EndPass(w)
    /\ UNCHANGED frozen

\* the flash is locked; the outcome of the write is dropped
Lock ==
    /\ pc = "Lock"
    /\ \E w \in WriteResults :
          /\ Dropped(w)
          /\ log' = Append(log, LockAccess)
          /\ EndPass(ret)
    /\ UNCHANGED frozen

(***************************************************************************)
(* The facade.                                                             *)
(***************************************************************************)
\* sectors and offsets the framework asks for
FirstSectors == {0, 1, 70}
EraseCalls ==
    UNION {{[NoArgs EXCEPT !.first = first, !.last = last] :
               last \in {l \in (first - 1)..(first + MaxRange - 1) : l >= 0}} :
           first \in FirstSectors}
WriteOffsets == {16, 128, 16 * KiB}
Seeds == {1, 250}
WriteCalls ==
    {[NoArgs EXCEPT !.nBytes = n, !.seed = 1] : n \in 0..MaxBytes}
    \cup {[NoArgs EXCEPT !.nBytes = MaxBytes, !.seed = seed] : seed \in Seeds}
    \cup {[NoArgs EXCEPT !.dstOffs = dstOffs, !.nBytes = MaxBytes, !.seed = 1] :
             dstOffs \in WriteOffsets}

\* the calls made with the target halted (h) and with the target running,
\* where the arguments are not looked at
EraseCallsWhen(h) ==
    IF h THEN EraseCalls ELSE {[NoArgs EXCEPT !.first = 0, !.last = MaxRange - 1]}
WriteCallsWhen(h) ==
    IF h THEN WriteCalls ELSE {[NoArgs EXCEPT !.nBytes = MaxBytes, !.seed = 1]}

\* the dereference of a null descriptor or the call of a null function
\* reference u: the process is killed, or garbage runs and returns
Undefined(u) ==
    /\ ub' = u
    /\ \/ pc' = "segv" /\ ret' = ret
       \/ \E r \in {ERROR_OK, ERROR_FAIL} : Return(r)
    /\ sector' = 0 /\ timeout' = 0 /\ bankNum' = 0 /\ addr' = 0 /\ nBytes' = 0

\* faulty variant of NotHalted: the halted test is passed over in silence
NotHalted_ReturnsOK ==
    /\ ub' = "none"
    /\ Step("idle", ERROR_OK, 0, 0, 0, 0, 0)

\* if (bank->target->state == TARGET_HALTED) ... return ERROR_TARGET_NOT_HALTED
NotHalted ==
    /\ ub' = "none"
    /\ Step("idle", ERROR_TARGET_NOT_HALTED, 0, 0, 0, 0, 0)

\* the body of FlashMassErase, called as op
MassEraseFrom(op) ==
    IF ~halted'
    THEN Enter(Call(op)) /\ NotHalted
    ELSE IF Def = NULL
    THEN Enter(Call(op)) /\ Undefined("null_descriptor")
    ELSE /\ Enter([op |-> op, fn |-> DeviceDefs[Def].MassErase, args |-> NoArgs])
         /\ ub' = "none"
         /\ Step("CheckNoOp", ERROR_FAIL, 0, 0, 0, 0, 0)

FlashMassErase ==
    /\ pc = "idle"
    /\ \E h \in BOOLEAN : halted' = h
    /\ MassEraseFrom("FlashMassErase")
    /\ UNCHANGED <<examined, isArm, arch, bank, Def, probed>>

FlashErase ==
    /\ pc = "idle"
    /\ \E h \in BOOLEAN : halted' = h
    /\ \E args \in EraseCallsWhen(halted') :
       LET c == [op |-> "FlashErase",
                 fn |-> IF Def = NULL THEN "none" ELSE DeviceDefs[Def].Erase,
                 args |-> args]
           first == args.first
           last == args.last
       IN /\ Enter(c)
          /\ IF ~halted' THEN NotHalted
             ELSE IF Def = NULL THEN Undefined("null_descriptor")
             ELSE IF c.fn # "Erase_H5"
             THEN ub' = "none" /\ Step("idle", ERROR_OK, 0, 0, 0, 0, 0)
             ELSE IF ~EraseAsserts_H5(bank.size, Def, first, last)
             THEN ub' = "none" /\ Step("abort", ERROR_FAIL, 0, 0, 0, 0, 0)
             ELSE ub' = "none" /\ Step("CheckNoOp", ERROR_FAIL, 0, 0, 0, 0, 0)
    /\ UNCHANGED <<examined, isArm, arch, bank, Def, probed>>

FlashWrite ==
    /\ pc = "idle"
    /\ \E h \in BOOLEAN : halted' = h
    /\ \E args \in WriteCallsWhen(halted') :
       LET c == [op |-> "FlashWrite",
                 fn |-> IF Def = NULL THEN "none" ELSE DeviceDefs[Def].Write,
                 args |-> args]
           dstOffs == args.dstOffs
           n == args.nBytes
       IN /\ Enter(c)
          /\ IF ~halted' THEN NotHalted
             ELSE IF Def = NULL THEN Undefined("null_descriptor")
             ELSE IF c.fn = "NULL" THEN Undefined("null_function")
             ELSE IF ~WriteAsserts_H5(bank, Def, dstOffs, n)
             THEN ub' = "none" /\ Step("abort", ERROR_FAIL, 0, 0, 0, 0, 0)
             ELSE /\ ub' = "none"
                  /\ Step("CheckNoOp", ERROR_FAIL, 0, 0, 0, dstOffs + bank.base, n)
    /\ UNCHANGED <<examined, isArm, arch, bank, Def, probed>>

GetInfo ==
    /\ pc = "idle"
    /\ Enter(Call("GetInfo"))
    /\ ub' = "none"
    /\ Step("idle", ERROR_OK, 0, 0, 0, 0, 0)
    /\ UNCHANGED <<examined, isArm, arch, halted, bank, Def, probed>>

(***************************************************************************)
(* The command 'stm32u5|stm32h5|stm32h7 mass_erase <bank_id>'.             *)
(***************************************************************************)
\* CMD_ARGC
CmdArgcs == {0, 1, 2}
\* outcomes of flash_command_get_bank, the bank lookup of the flash framework
GetBankResults == {ERROR_OK, ERROR_FAIL}

\* the command returns r without a call of FlashMassErase
CommandRefused(why, r) ==
    /\ Enter([Call("STM32_MassEraseCommand") EXCEPT !.fn = why])
    /\ ub' = "none"
    /\ Step("idle", r, 0, 0, 0, 0, 0)
    /\ halted' = halted

STM32_MassEraseCommand ==
    /\ pc = "idle"
    /\ \E argc \in CmdArgcs, found \in GetBankResults :
          IF argc # 1
          THEN CommandRefused("syntax", ERROR_COMMAND_SYNTAX_ERROR)
          ELSE IF found # ERROR_OK
          THEN CommandRefused("no_bank", found)
          ELSE /\ \E h \in BOOLEAN : halted' = h
               /\ MassEraseFrom("STM32_MassEraseCommand")
    /\ UNCHANGED <<examined, isArm, arch, bank, Def, probed>>

\* FlashMassErase was called by the command and has returned
CommandReturned ==
    /\ pc = "idle"
    /\ call.op = "STM32_MassEraseCommand"
    /\ call.fn \notin {"syntax", "no_bank"}

\* what the command has printed with command_print
command_print ==
    IF ~CommandReturned THEN "none"
    ELSE IF ret = ERROR_OK THEN "Flash erased."
    ELSE "Flash erase failed!"

Next ==
    \/ ProbeCall
    \/ ProbeScan
    \/ ProbeSize
    \/ FlashMassErase
    \/ FlashErase
    \/ FlashWrite
    \/ GetInfo
    \/ STM32_MassEraseCommand
    \/ CheckNoOp
    \/ ClearErrorFlags
    \/ Unlock
    \/ UnlockKey1
    \/ UnlockKey2
    \/ UnlockVerify
    \/ Start
    \/ Wait4EOP
    \/ WriteBurst
    \/ ResetBits
    \/ Lock

Spec == Init /\ [][Next]_vars

(***************************************************************************)
(* Wait4EOP on its own: Wait4EOP_U5/H5/H7(bank, timeout) called on a       *)
(* probed bank with every timeout up to MaxTicks.  The call has returned   *)
(* ret when pc = "ResetBits".  The driver is one thread that keeps         *)
(* running, and alive_sleep returns: weak fairness.                        *)
(***************************************************************************)
\* struct flash_bank as Probe leaves it for the descriptor d
ProbedBank(d) ==
    [base |-> d.FlashBaseAddr, size |-> d.MaxFlashSize,
     chip_width |-> d.FlashBusWidth, bus_width |-> d.FlashBusWidth,
     write_start_alignment |-> d.FlashBusWidth,
     minimal_write_gap |-> d.FlashBusWidth, num_sectors |-> 0]

WaitInit ==
    /\ examined = TRUE
    /\ isArm = TRUE
    /\ halted = TRUE
    /\ Def \in 1..NumDefs
    /\ arch = DeviceDefs[Def].ARMArch
    /\ bank = ProbedBank(DeviceDefs[Def])
    /\ pc = "Wait4EOP_call"
    /\ \E t \in 0..MaxTicks :
          call = [op |-> "Wait4EOP", fn |-> DeviceDefs[Def].MassErase,
                  args |-> [NoArgs EXCEPT !.timeout = t]]
    /\ bankNum \in (IF DeviceDefs[Def].MassErase = "MassErase_H7"
                    THEN 0..(NumBanks_H7 - 1) ELSE {0})
    /\ pre = [Def |-> Def, size |-> bank.size]
    /\ ret = ERROR_OK
    /\ k = 0
    /\ val16 = NoRead
    /\ sector = 0
    /\ timeout = 0
    /\ addr = 0
    /\ nBytes = 0
    /\ ub = "none"
    /\ probed = ERROR_OK
    /\ log = <<>>
    /\ val32 = NoVal
    /\ failed = 0

\* Wait4EOP(bank, timeout): int ret = ERROR_FAIL; while (0 < timeout)
WaitCall ==
    /\ pc = "Wait4EOP_call"
    /\ EnterWait(call.args.timeout, addr, nBytes)
    /\ UNCHANGED <<frozen, log, val32, failed>>

WaitNext ==
    \/ WaitCall
    \/ Wait4EOP

WaitSpec == WaitInit /\ [][WaitNext]_vars /\ WF_vars(WaitNext)

(***************************************************************************)
(* Reading the access log.                                                 *)
(***************************************************************************)
RECURSIVE Count(_, _)
\* how often the access e occurs in the log l
Count(l, e) ==
    IF l = <<>> THEN 0
    ELSE (IF Head(l) = e THEN 1 ELSE 0) + Count(Tail(l), e)

IsBurst(e) == e.acc = "write_memory"
IsWriteU32(e) == e.acc = "write_u32"
IsIdcodeRead(e) ==
    /\ e.acc = "read_u32"
    /\ \E i \in 1..NumDefs : e.addr = DeviceDefs[i].IDCODE_RomTableAddr

\* the bursts and the register writes of the call, in order
Bursts == SelectSeq(log, IsBurst)
RegWrites == SelectSeq(log, IsWriteU32)

\* the lock writes a mass erase of the dispatched family makes
LockWrites ==
    CASE call.fn = "MassErase_U5" -> Count(log, Lock_U5)
      [] call.fn = "MassErase_H5" -> Count(log, Lock_H5)
      [] call.fn = "MassErase_H7" -> Count(log, Lock_H7(0)) + Count(log, Lock_H7(1))
      [] OTHER -> 0

MassEraseReturned ==
    /\ pc = "idle"
    /\ call.fn \in {"MassErase_U5", "MassErase_H5", "MassErase_H7"}

(***************************************************************************)
(* C1: every mass erase writes the lock pattern exactly once per physical  *)
(* bank pass, whatever the outcome of its earlier steps: once for          *)
(* MassErase_U5 and MassErase_H5, twice for MassErase_H7.                  *)
(* The code locks only inside the block guarded by CheckNoOp,              *)
(* ClearErrorFlags and Unlock: C1_LockOncePerPass is violated.             *)
(***************************************************************************)
\* C1: a returned mass erase has written the lock pattern once per pass
C1_LockOncePerPass ==
    MassEraseReturned =>
        LockWrites = (IF call.fn = "MassErase_H7" THEN NumBanks_H7 ELSE 1)

(***************************************************************************)
(* C2: in Erase_H5, a failed start write or a failed wait of a sector ends *)
(* the range: the loop never starts a later sector with a failure in ret.  *)
(* The loop of the code has no exit on failure: C2_EraseAbortsRange is     *)
(* violated.                                                               *)
(***************************************************************************)
\* C2: Erase_H5 starts a later sector only after a success
C2_EraseAbortsRange ==
    (pc = "Start" /\ call.fn = "Erase_H5" /\ sector > call.args.first)
        => ret = ERROR_OK

(***************************************************************************)
(* C3: a Probe of an examined target with an unresolved bank that scans    *)
(* the whole table without a match returns a failure status and leaves the *)
(* descriptor reference null.                                              *)
(* The code returns ERROR_OK ("still probed"): C3_NoMatchFails is violated.*)
(***************************************************************************)
ProbeFoundNoMatch ==
    /\ pc = "idle"
    /\ call.op = "Probe"
    /\ examined
    /\ pre.Def = NULL
    /\ k = NumDefs

\* C3: a Probe that found no match returns a failure, Def stays NULL
C3_NoMatchFails == ProbeFoundNoMatch => (ret # ERROR_OK /\ Def = NULL)

(***************************************************************************)
(* C4: with the bank left unresolved by Probe, FlashMassErase, FlashErase  *)
(* and FlashWrite on a halted target return an error and never dispatch    *)
(* through the null descriptor reference.                                  *)
(* The code reads dev->MassErase, dev->Erase, dev->Write with dev == NULL: *)
(* C4_UnresolvedRejected is violated.                                      *)
(***************************************************************************)
FacadeOps == {"FlashMassErase", "FlashErase", "FlashWrite"}

\* C4: on an unresolved bank the facade returns an error, nothing undefined
C4_UnresolvedRejected ==
    (/\ call.op \in FacadeOps
     /\ halted
     /\ probed = ERROR_OK
     /\ pre.Def = NULL)
        => (ub = "none" /\ pc = "idle" /\ ret # ERROR_OK)

(***************************************************************************)
(* C5: Erase_H5 on a bank of N sectors addresses sector s < N/2 in the     *)
(* first bank with index s and sector s >= N/2 in the second bank (select  *)
(* bit set) with index s - N/2.                                            *)
(* The code takes N, not N/2, as the sectors per bank:                     *)
(* C5_SecondBankSelected is violated.                                      *)
(***************************************************************************)
\* the control word the claim describes
HalfBankCR(sec, total) ==
    IF sec < total \div 2
    THEN OrW(W(0, 36), ShlW(ToWord(sec), 6))
    ELSE OrW(W(32768, 36), ShlW(ToWord(sec - total \div 2), 6))

\* C5: the word that started the erase of sector is the one of its half
C5_SecondBankSelected ==
    (pc = "Wait4EOP" /\ call.fn = "Erase_H5")
        => RegWrites[Len(RegWrites)] =
               WriteU32(H5_NSCR,
                        HalfBankCR(sector,
                                   nSectorsTotal(bank.size, DeviceDefs[Def])))

(***************************************************************************)
(* C6: a Write_H5 of n > 0 source bytes at address a that succeeds has     *)
(* issued exactly ceil(n/16) bursts; burst i (from 0) went to a + 16*i,    *)
(* carries the source bytes 16*i .. min(16*i+15, n-1) in order and 0xFF in *)
(* every remaining byte.                                                   *)
(***************************************************************************)
WriteSucceeded ==
    /\ pc = "idle"
    /\ call.fn = "Write_H5"
    /\ ret = ERROR_OK
    /\ call.args.nBytes > 0

\* C6: the bursts of a successful Write_H5: count, addresses, bytes, padding
C6_WriteBursts ==
    WriteSucceeded =>
        LET n == call.args.nBytes
            a == call.args.dstOffs + bank.base
        IN /\ Len(Bursts) = (n + 15) \div 16
           /\ \A i \in 1..Len(Bursts) :
                 /\ Bursts[i].addr = ToWord(a + 16 * (i - 1))
                 /\ Len(Bursts[i].data) = 16
                 /\ \A j \in 1..16 :
                       LET src == 16 * (i - 1) + (j - 1) IN
                       Bursts[i].data[j] =
                           (IF src < n THEN (call.args.seed + src) % 256 ELSE 255)

\* a write of 20 bytes has succeeded with two bursts
C6_Witness ==
    /\ WriteSucceeded
    /\ call.args.nBytes = 20
    /\ Len(Bursts) = 2
    /\ Bursts[2].data[5] = 255

(***************************************************************************)
(* C7: Write_H5 accepts every destination address that is a multiple of    *)
(* the 16 byte burst width Probe publishes as write_start_alignment and    *)
(* whose range lies inside the bank: no assertion fires.                   *)
(* The code asserts (addr & 127) == 0: C7_BurstAlignedAccepted is violated.*)
(***************************************************************************)
\* C7: no assertion of Write_H5 fires on a 16 byte aligned, in range write
C7_BurstAlignedAccepted ==
    (/\ call.fn = "Write_H5"
     /\ halted
     /\ bank.write_start_alignment = 16
     /\ (call.args.dstOffs + bank.base) % bank.write_start_alignment = 0
     /\ call.args.dstOffs + call.args.nBytes <= bank.size)
        => pc # "abort"

(***************************************************************************)
(* C8: a Probe that reads the capacity register.                           *)
(* As claimed (C8_FallsBackToMaximum, violated): a scaled value that is    *)
(* zero or above the nominal maximum gives the nominal maximum, for every  *)
(* declared bank size.                                                     *)
(* As amended (C8_Capacity): such a value leaves the bank with the size it *)
(* had before Probe, if that is neither zero nor above the nominal         *)
(* maximum, and with the nominal maximum otherwise; a value in range       *)
(* becomes the capacity.                                                   *)
(***************************************************************************)
CapacityRead ==
    /\ pc = "idle"
    /\ call.op = "Probe"
    /\ ret = ERROR_OK
    /\ val16.ret = ERROR_OK

CapacityRejected ==
    val16.val * 1024 = 0 \/ val16.val * 1024 > DeviceDefs[Def].MaxFlashSize

\* C8 as claimed: a rejected capacity value gives the nominal maximum
C8_FallsBackToMaximum ==
    CapacityRead =>
        bank.size = (IF CapacityRejected THEN DeviceDefs[Def].MaxFlashSize
                     ELSE val16.val * 1024)

\* C8 as amended: a rejected capacity value gives the size the bank had,
\* clamped to the nominal maximum; a value in range becomes the capacity
C8_Capacity ==
    CapacityRead =>
        bank.size =
            (IF ~CapacityRejected THEN val16.val * 1024
             ELSE IF pre.size = 0 \/ pre.size > DeviceDefs[Def].MaxFlashSize
             THEN DeviceDefs[Def].MaxFlashSize
             ELSE pre.size)

\* the register read zero on a bank declared with 256 KiB
C8_Witness ==
    /\ CapacityRead
    /\ pre.Def = NULL
    /\ val16.val = 0
    /\ pre.size = 256 * KiB
    /\ bank.size = 256 * KiB

(***************************************************************************)
(* C9: every Probe of a bank whose descriptor is bound returns success     *)
(* and reads no identification register.                                   *)
(* Probe binds the descriptor before it compares the bank's base address,  *)
(* so a bound bank can have a foreign base and is refused again:           *)
(* C9_ProbeIdempotent is violated.                                         *)
(***************************************************************************)
\* C9: a Probe of a bound bank returns success without identification read
C9_ProbeIdempotent ==
    (pc = "idle" /\ call.op = "Probe" /\ pre.Def # NULL)
        => (ret = ERROR_OK /\ \A i \in 1..Len(log) : ~IsIdcodeRead(log[i]))

(***************************************************************************)
(* C10: the descriptor reference changes only from null to a table entry;  *)
(* once bound it keeps its value in every later state.                     *)
(***************************************************************************)
\* C10: Def changes only from NULL to a table entry
C10_DefBoundOnce ==
    [][Def' # Def => (Def = NULL /\ Def' \in 1..NumDefs)]_vars

\* a bound bank went through a further Probe and an erase
C10_Witness ==
    /\ pc = "idle"
    /\ call.op \in {"Probe", "FlashErase"}
    /\ pre.Def # NULL
    /\ Def = pre.Def

(***************************************************************************)
(* C11: with the target not halted, FlashMassErase, FlashErase, FlashWrite *)
(* and the mass_erase command (given one argument that names a bank)       *)
(* return ERROR_TARGET_NOT_HALTED and make no access to the target; the    *)
(* command prints its failure message.                                     *)
(***************************************************************************)
HaltedTested ==
    \/ call.op \in FacadeOps
    \/ (call.op = "STM32_MassEraseCommand" /\ call.fn \notin {"syntax", "no_bank"})

CleanupWrites ==
    {MassEraseReset_U5, Lock_U5, MassEraseReset_H5, Lock_H5}
        \cup {MassEraseReset_H7(b) : b \in 0..(NumBanks_H7 - 1)}
        \cup {Lock_H7(b) : b \in 0..(NumBanks_H7 - 1)}

\* C12: after the first failed access only cleanup follows, failure returned
C12_TransportAborts ==
    failed # 0 =>
        /\ \A i \in (failed + 1)..Len(log) : log[i] \in CleanupWrites
        /\ pc = "idle" => ret # ERROR_OK

(***************************************************************************)
(* C13: a Probe of an examined target with an unresolved bank whose core   *)
(* architecture is the architecture of no descriptor returns a failure.    *)
(* On an ARM core of such an architecture the scan reads nothing, and      *)
(* Probe returns ERROR_OK ("still probed"): C13_UnsupportedArchFails is    *)
(* violated.                                                               *)
(***************************************************************************)
\* the architectures the descriptor table has a row for
SupportedArchs == {DeviceDefs[i].ARMArch : i \in 1..NumDefs}

\* C13: Probe fails on a core architecture without descriptor
C13_UnsupportedArchFails ==
    (/\ pc = "idle"
     /\ call.op = "Probe"
     /\ examined
     /\ pre.Def = NULL
     /\ arch \notin SupportedArchs)
        => ret # ERROR_OK

(***************************************************************************)
(* C14: Unlock is idempotent: when the read of the control register shows  *)
(* the lock bit clear (bit 31 for U5, bit 0 for H5 and H7), Unlock makes   *)
(* no register write and returns success: the guarded block is entered     *)
(* with the read as the only access of Unlock.                             *)
(***************************************************************************)
\* the lock bit of the control register of the family
LockBit == IF Fam = "U5" THEN W(32768, 0) ELSE W(0, 1)
LockBitClear(v) == AndW(v, LockBit) = ZeroW

\* C14: lock bit read clear: Unlock writes nothing and returns success
C14_UnlockIdempotent ==
    [][(pc = "Unlock" /\ val32'.ret = ERROR_OK /\ LockBitClear(val32'.val))
          => /\ pc' = "Start"
             /\ ret' = ERROR_OK
             /\ log' = Append(log, ReadU32(ControlReg))]_vars

\* MassErase_U5 found the flash unlocked: 0x00000001 in the control register
C14_Witness ==
    /\ call.fn = "MassErase_U5"
    /\ pc = "Start"
    /\ ret = ERROR_OK
    /\ val32 = [ret |-> ERROR_OK, val |-> W(0, 1)]
    /\ log = <<ReadU32(U5_NSSR), ClearErrorFlags_U5, ReadU32(U5_NSCR)>>

(***************************************************************************)
(* C15: when the read of the control register shows the lock bit set,      *)
(* Unlock writes 0x45670123 and then 0xcdef89ab to the key register, each  *)
(* once, and reads the control register again; it returns success iff the  *)
(* lock bit is then clear, and ERROR_FAIL, with no further key write, if   *)
(* it is still set.                                                        *)
(***************************************************************************)
FirstKey == W(17767, 291)
SecondKey == W(52719, 35243)

\* the last n accesses in l
LastN(l, n) == SubSeq(l, Len(l) - n + 1, Len(l))

KeyRegs == {U5_NSKEYR, H5_NSKEYR} \cup {H7_KEYR(b) : b \in 0..(NumBanks_H7 - 1)}

\* C15: lock bit set: key 1, key 2, second read; success iff then unlocked
C15_UnlockKeys ==
    [][/\ (pc = "Unlock" /\ val32'.ret = ERROR_OK /\ ~LockBitClear(val32'.val))
            => /\ pc' = "Unlock_key1"
               /\ log' = Append(log, ReadU32(ControlReg))
       /\ pc = "Unlock_verify"
            => /\ Len(log') >= 4
               /\ LastN(log', 4) = <<ReadU32(ControlReg),
                                     WriteU32(KeyReg, FirstKey),
                                     WriteU32(KeyReg, SecondKey),
                                     ReadU32(ControlReg)>>
               /\ val32'.ret = ERROR_OK
                    => /\ (pc' = "Start" /\ ret' = ERROR_OK) <=> LockBitClear(val32'.val)
                       /\ ~LockBitClear(val32'.val)
                            => (ret' = ERROR_FAIL /\ pc' \in {"idle", "CheckNoOp"})
       /\ \A kr \in KeyRegs :
             /\ Count(log', WriteU32(kr, FirstKey)) <= 1
             /\ Count(log', WriteU32(kr, SecondKey)) <= 1
             /\ Count(log', WriteU32(kr, SecondKey)) <= Count(log', WriteU32(kr, FirstKey))
      ]_vars

\* MassErase_H5 wrote both keys and found the flash still locked
C15_Witness ==
    /\ call.fn = "MassErase_H5"
    /\ pc = "idle"
    /\ ret = ERROR_FAIL
    /\ val32 = [ret |-> ERROR_OK, val |-> W(0, 1)]
    /\ log = <<ReadU32(H5_NSSR), ClearErrorFlags_H5, ReadU32(H5_NSCR),
               WriteU32(H5_NSKEYR, FirstKey), WriteU32(H5_NSKEYR, SecondKey),
               ReadU32(H5_NSCR)>>

(***************************************************************************)
(* C16: the tick of Wait4EOP whose status read succeeds with a bit of the  *)
(* fatal error mask set (0x000020fa for U5, 0x00fe0000 for H5, 0x00ff0000  *)
(* for H7) ends the wait with ERROR_FAIL: no further status read of this   *)
(* wait follows, whatever is left of the timeout.                          *)
(***************************************************************************)
FatalMask ==
    CASE Fam = "U5" -> W(0, 8442) [] Fam = "H5" -> W(254, 0) [] Fam = "H7" -> W(255, 0)

\* C16: a fatal error bit ends the wait on its tick with a failure
C16_FatalEndsWait ==
    [][(pc = "Wait4EOP" /\ val32'.ret = ERROR_OK
            /\ AndW(val32'.val, FatalMask) # ZeroW)
          => /\ pc' # "Wait4EOP"
             /\ ret' = ERROR_FAIL
             /\ log' = Append(log, ReadU32(StatusReg))]_vars

\* the first of the ticks of a mass erase of U5 read PROGERR (0x00000008)
C16_Witness ==
    /\ call.fn = "MassErase_U5"
    /\ pc = "ResetBits"
    /\ ret = ERROR_FAIL
    /\ val32 = [ret |-> ERROR_OK, val |-> W(0, 8)]
    /\ log = <<ReadU32(U5_NSSR), ClearErrorFlags_U5, ReadU32(U5_NSCR),
               MassEraseStart_U5, ReadU32(U5_NSSR)>>

(***************************************************************************)
(* C17: Wait4EOP called with the timeout T returns after at most T status  *)
(* reads, whatever the reads return; when no read showed a fatal error bit *)
(* or the success pattern it has made T reads (none for T = 0) and returns *)
(* ERROR_FAIL; it returns ERROR_OK only on the success pattern.            *)
(***************************************************************************)
\* the success pattern of the status register of the family
SuccessSeen(v) ==
    CASE Fam = "U5" -> AndW(v, W(1, 1)) = W(0, 1)
      [] Fam = "H5" -> AndW(v, W(1, 11)) = W(1, 0)
      [] Fam = "H7" -> AndW(v, W(0, 11)) = ZeroW

\* the last status read has decided the wait
Decided ==
    /\ val32.ret = ERROR_OK
    /\ (AndW(val32.val, FatalMask) # ZeroW \/ SuccessSeen(val32.val))

WaitReturned == pc = "ResetBits"

\* C17: at most T status reads, then returned; failure unless decided
C17_WaitTerminates ==
    /\ [](/\ Len(log) <= call.args.timeout
          /\ pc = "Wait4EOP" => timeout = call.args.timeout - Len(log)
          /\ WaitReturned =>
                /\ ~Decided => (ret = ERROR_FAIL /\ Len(log) = call.args.timeout)
                /\ ret = ERROR_OK =>
                      (Decided /\ AndW(val32.val, FatalMask) = ZeroW))
    /\ <>WaitReturned

\* Wait4EOP_H7 of bank 1 used up the largest timeout on failed reads
C17_Witness ==
    /\ WaitReturned
    /\ call.fn = "MassErase_H7"
    /\ bankNum = 1
    /\ call.args.timeout = MaxTicks
    /\ Len(log) = MaxTicks
    /\ val32.ret = ERROR_TRANSPORT
    /\ ret = ERROR_FAIL

(***************************************************************************)
(* C18: when the first status read of a mass erase, of Erase_H5 or of      *)
(* Write_H5 (of a bank pass of MassErase_H7) shows a bit of the busy mask  *)
(* (0x00010000 for U5, 0x0000000b for H5 and H7), the operation (the bank  *)
(* pass) ends at once with ERROR_TARGET_RESOURCE_NOT_AVAILABLE and has     *)
(* made no register write: that read is its only access.                   *)
(***************************************************************************)
BusyMask == IF Fam = "U5" THEN W(1, 0) ELSE W(0, 11)

\* the registers of bank b of the H7 flash interface
BankRegs_H7(b) == {H7_KEYR(b), H7_SR(b), H7_CR(b), H7_CCR(b)}

\* C18: busy at the first status read: resource not available, no write
C18_BusyNoWrite ==
    [][(pc = "CheckNoOp" /\ val32'.ret = ERROR_OK
            /\ AndW(val32'.val, BusyMask) # ZeroW)
          => /\ ret' = ERROR_TARGET_RESOURCE_NOT_AVAILABLE
             /\ log' = Append(log, ReadU32(StatusReg))
             /\ IF Fam = "H7"
                THEN /\ \A i \in 1..Len(log) : log[i].addr \notin BankRegs_H7(bankNum)
                     /\ IF bankNum = 0
                        THEN pc' = "CheckNoOp" /\ bankNum' = 1
                        ELSE pc' = "idle"
                ELSE /\ log = <<>>
                     /\ pc' = "idle"]_vars

\* bank 1 of an H7 was busy after the pass of bank 0 had erased and locked
C18_Witness ==
    /\ call.fn = "MassErase_H7"
    /\ pc = "idle"
    /\ bankNum = 1
    /\ ret = ERROR_TARGET_RESOURCE_NOT_AVAILABLE
    /\ val32 = [ret |-> ERROR_OK, val |-> W(0, 8)]
    /\ Count(log, Lock_H7(0)) = 1
    /\ log[Len(log)] = ReadU32(H7_SR(1))
    /\ \A i \in 1..(Len(log) - 1) : log[i].addr \in BankRegs_H7(0)

(***************************************************************************)
(* C19: in a mass erase, in Erase_H5 and in Write_H5 a write that starts   *)
(* the mass erase, the erase of a sector or programming is made only after *)
(* the busy check has passed, the write that clears the error flags has    *)
(* succeeded and Unlock has returned success, in this order and in the     *)
(* same operation (bank pass); no burst is written before the write that   *)
(* enables programming has succeeded.                                      *)
(***************************************************************************)
\* the word a lock write puts into the control register
LockPattern == IF Fam = "U5" THEN W(32768, 0) ELSE W(0, 1)

ControlRegs == {U5_NSCR, H5_NSCR} \cup {H7_CR(b) : b \in 0..(NumBanks_H7 - 1)}

\* e writes a start pattern: neither the lock pattern nor the reset to zero
IsStartWrite(e) ==
    /\ IsWriteU32(e)
    /\ e.addr \in ControlRegs
    /\ e.val \notin {ZeroW, LockPattern}

\* l holds, in this order, the status read, the error flag clear and a read
\* of the control register of the bank pass in progress
GuardedIn(l) ==
    \E a, b, c \in 1..Len(l) :
        /\ a < b
        /\ b < c
        /\ l[a] = ReadU32(StatusReg)
        /\ l[b] = ClearAccess
        /\ l[c] = ReadU32(ControlReg)

\* what holds before each step of the guarded sequence
GuardPassed ==
    /\ pc = "ClearErrorFlags" =>
          /\ val32.ret = ERROR_OK
          /\ AndW(val32.val, BusyMask) = ZeroW
          /\ log[Len(log)] = ReadU32(StatusReg)
    /\ pc = "Unlock" =>
          /\ val32.ret = ERROR_OK
          /\ log[Len(log)] = ClearAccess
    /\ (pc = "Start" /\ ~IsWriteU32(log[Len(log)])) =>
          /\ val32.ret = ERROR_OK
          /\ LockBitClear(val32.val)
          /\ ret = ERROR_OK
          /\ log[Len(log)] = ReadU32(ControlReg)
    /\ pc = "Start" => GuardedIn(log)
    /\ (pc = "WriteBurst" /\ Bursts = <<>>) =>
          /\ val32.ret = ERROR_OK
          /\ log[Len(log)] = WriteU32(H5_NSCR, W(0, 2))
          /\ GuardedIn(log)

\* C19: start patterns and bursts are written only after the guard
C19_GuardBeforeStart ==
    [][/\ GuardPassed'
       /\ (Len(log') > Len(log) /\ IsStartWrite(log'[Len(log')])) => pc = "Start"
       /\ (Len(log') > Len(log) /\ IsBurst(log'[Len(log')])) => pc = "WriteBurst"]_vars

\* Write_H5 is about to write its first burst after it has unlocked the
\* flash with the keys
C19_Witness ==
    /\ call.fn = "Write_H5"
    /\ pc = "WriteBurst"
    /\ val32.ret = ERROR_OK
    /\ log = <<ReadU32(H5_NSSR), ClearErrorFlags_H5, ReadU32(H5_NSCR),
               WriteU32(H5_NSKEYR, KEY1), WriteU32(H5_NSKEYR, KEY2),
               ReadU32(H5_NSCR), ProgramStart_H5>>

(***************************************************************************)
(* C20: the status a mass erase, Erase_H5 and Write_H5 return is the one   *)
(* the main sequence left in ret: the write that resets the start bits and *)
(* the lock write leave ret as it is, whether they succeed or fail.        *)
(***************************************************************************)
\* C20: the cleanup write and the lock write do not change the result
C20_CleanupKeepsResult ==
    [][(pc = "ResetBits" \/ pc = "Lock")
          => (/\ ret' = ret
              /\ log'[Len(log')] \in CleanupWrites
              /\ val32'.ret \in WriteResults
              /\ failed' = failed)]_vars

\* MassErase_H5 returned success although its lock write failed
C20_Witness ==
    /\ call.fn = "MassErase_H5"
    /\ pc = "idle"
    /\ ret = ERROR_OK
    /\ val32.ret = ERROR_TRANSPORT
    /\ log[Len(log)] = Lock_H5
    /\ failed = 0


(***************************************************************************)
(* C21: MassErase_H7 returns success only if the sequence succeeded on     *)
(* bank 0 and on bank 1.  A pass that succeeded has passed CheckNoOp,      *)
(* ClearErrorFlags and Unlock and has written the mass erase start word to *)
(* the control register of its bank, so a call that returns ERROR_OK has   *)
(* started the erase of both banks.                                        *)
(* The pass of bank 1 assigns ret anew and the status of the pass of       *)
(* bank 0 is lost: C21_BothBanksErased is violated.                        *)
(***************************************************************************)
\* the mass erase of bank b of the H7 was started by the call
EraseStartedOn(b) ==
    \E i \in 1..Len(log) : log[i] = WriteU32(H7_CR(b), W(0, 32800))

\* C21: a MassErase_H7 that returns success has started the erase of bank 0
\* and of bank 1
C21_BothBanksErased ==
    (pc = "idle" /\ call.fn = "MassErase_H7" /\ ret = ERROR_OK)
        => (EraseStartedOn(0) /\ EraseStartedOn(1))


(***************************************************************************)
(* C22: a Probe that returns a failure status (target not examined, not an *)
(* ARM target, foreign base address) leaves the descriptor reference as it *)
(* was when Probe was called: an unresolved bank stays unresolved.         *)
(* Probe assigns this->Def in the scan, before it compares the base        *)
(* address of the bank, and does not take the assignment back when the     *)
(* comparison fails: C22_FailedProbeKeepsDef is violated.                  *)
(***************************************************************************)
\* C22: after a Probe that returned a failure, Def is what it was before
C22_FailedProbeKeepsDef ==
    (pc = "idle" /\ call.op = "Probe" /\ ret # ERROR_OK) => Def = pre.Def


(***************************************************************************)
(* C23: for every descriptor Probe can bind, FlashWrite on a halted target *)
(* calls a defined Write function or returns an error; it never calls      *)
(* through a null function reference.                                      *)
(* The descriptors of the U5 and of the H7 leave .Write unset and          *)
(* FlashWrite calls (dev->Write)(..) untested: C23_WriteDefined is         *)
(* violated.                                                               *)
(***************************************************************************)
\* the Write functions the driver defines
WriteFunctions == {"Write_H5"}

\* C23: FlashWrite on a bound bank of a halted target runs a defined Write
\* function or has returned an error, and nothing undefined has happened
C23_WriteDefined ==
    (call.op = "FlashWrite" /\ halted /\ pre.Def # NULL)
        => /\ ub = "none"
           /\ \/ DeviceDefs[pre.Def].Write \in WriteFunctions
              \/ (pc = "idle" /\ ret # ERROR_OK)


(***************************************************************************)
(* C24: every sector erase control word of an Erase_H5 call that passed    *)
(* its assertions addresses an existing sector: the sector index the word  *)
(* encodes with its bank select bit and its sector field is below the      *)
(* total sector count bank->size / FlashPageSize.  The word is read back   *)
(* with the sectors per bank it was built with.                            *)
(* The assertion admits last == nSectorsTotal and the loop runs up to      *)
(* last: C24_ErasesExistingSectors is violated.                            *)
(***************************************************************************)
\* a write to the control register with the sector erase and start bits
IsSectorErase(e) ==
    /\ e.acc = "write_u32"
    /\ e.addr = H5_NSCR
    /\ BitAnd(e.val[2], 36) = 36

\* the sector field (bits 6 and up of the low half) and the bank select bit
\* (bit 31) of a control word
SectorField(cr) == cr[2] \div 64
BankSelected(cr) == cr[1] >= 32768

\* the sector a control word stands for, perBank sectors in each bank
EncodedSector(cr, perBank) ==
    IF BankSelected(cr) THEN perBank + SectorField(cr) ELSE SectorField(cr)

\* C24: Erase_H5 writes sector erase words for existing sectors only
C24_ErasesExistingSectors ==
    call.fn = "Erase_H5" =>
        \A i \in 1..Len(log) :
            IsSectorErase(log[i]) =>
                EncodedSector(log[i].val,
                              nSectorsPerBank(bank.size, DeviceDefs[Def]))
                    < nSectorsTotal(bank.size, DeviceDefs[Def])

====
